---- MODULE Spec2Model ----
(***************************************************************************)
(* Indoor navigation core: the building graph (BuildingGraph, Node) and    *)
(* the congestion-aware A* search (PathFinder) of                          *)
(* backend/core/path_finder.py.                                            *)
(*                                                                         *)
(* Numbers.  Distances and coordinates are integers.  A congestion rate is *)
(* stored doubled (1, 2 stand for 0.5, 1.0), so that the code's            *)
(* factor 1.0 + rate * 2 is the integer 1 + r.  The heuristic is a square  *)
(* root; it is carried as its square and f = g + sqrt(h2) is compared      *)
(* exactly (FLess), i.e. the model computes in exact real arithmetic.      *)
(* Node ids are strings; the heap's tie-break compares them as Python      *)
(* compares strings (IdRank).                                              *)
(*                                                                         *)
(* The sections further down model the CongestionProcessor                 *)
(* (SpecEstimator, SpecConcurrent), the ModelPathMatcher (SpecMatcher) and *)
(* searches of one fixed building while readings are stored                *)
(* (SpecScenario); searches on graphs of four nodes (SpecSearch,           *)
(* SpecSearchFair) and the location keys of edges (SpecEdgeKeys) follow.   *)
(* Each specification moves its own variables and leaves the others as     *)
(* Init set them.                                                          *)
(***************************************************************************)
EXTENDS Integers, Sequences, FiniteSets, TLC

VARIABLES
    nodes,              \* BuildingGraph.nodes: id -> [x, y, floor]
    neighbors,          \* Node.neighbors of every node: id -> (id -> distance)
    special_locations,  \* BuildingGraph.special_locations: name -> id
    lookup,             \* outcome of the last get_node_by_location call
    calls,              \* number of graph-building calls made for this request
    pc,                 \* "build", "search" (head of the while loop), "done", "error"
    start_id,           \* find_path arguments
    end_id,
    congestion_data,
    open_set,           \* heap entries (f_score, node_id)
    closed_set,
    g_score,
    came_from,
    expanded,           \* history: ids in the order they were expanded
    result              \* value returned by find_path

VARIABLES
    live,               \* the stored congestion readings get_congestion_data reads
    mid_search,         \* history: readings stored since the running search began
    data_cache,         \* CongestionProcessor.data_cache: location -> samples
    congestion_cache,   \* CongestionProcessor.congestion_cache: location -> (rate, time)
    now,                \* time.time(), in cooldown periods (half seconds)
    est_ret,            \* the last estimator call and what it returned
    workers,            \* position of every concurrent add_data_point call
    node_positions,     \* ModelPathMatcher.node_positions: id -> Point3D
    match_out           \* the last model-matcher call and what it returned

navVars == <<nodes, neighbors, special_locations, lookup, calls, pc, start_id, end_id,
             congestion_data, open_set, closed_set, g_score, came_from, expanded, result>>

estVars == <<data_cache, congestion_cache, now, est_ret>>

matchVars == <<node_positions, match_out>>

\* What the graph and the search never touch.
restVars == <<live, mid_search, estVars, workers, matchVars>>

vars == <<navVars, restVars>>

searchVars == <<pc, start_id, end_id, congestion_data, open_set, closed_set,
                g_score, came_from, expanded, result>>

---------------------------------------------------------------------------
(* Bounds and input sets *)

MaxCalls == 6        \* graph-building calls per request
MaxDist == 1         \* add_edge distances are drawn from -1 and 1 .. MaxDist
MaxCongested == 1    \* node pairs that carry a rate in a snapshot

NodeIds == {"A", "B", "C"}
Names == {"hall"}
Positions == {[x |-> 0, y |-> 0, floor |-> 0], [x |-> 1, y |-> 1, floor |-> 1]}
Distances == {-1} \cup (1 .. MaxDist)
Rates == {1, 2}

EmptyFn == [k \in {} |-> 0]

IdRank(id) ==
    CASE id = "A" -> 1 [] id = "B" -> 2 [] id = "C" -> 3 [] id = "D" -> 4 [] OTHER -> 0

IdLess(a, b) == IdRank(a) < IdRank(b)

\* The unordered node pairs, each as the ordered pair with the smaller id first.
Pairs == {p \in NodeIds \X NodeIds : IdLess(p[1], p[2])}

\* The keys a snapshot may hold for a set of unordered pairs: either order, or both.
KeysOf(ps) == {k \in NodeIds \X NodeIds : <<k[1], k[2]>> \in ps \/ <<k[2], k[1]>> \in ps}

\* Snapshots: Dict[Tuple[str, str], float] with rates on at most MaxCongested pairs.
Snapshots ==
    UNION {UNION {[ks -> Rates] : ks \in SUBSET KeysOf(ps)} :
              ps \in {q \in SUBSET Pairs : Cardinality(q) <= MaxCongested}}

---------------------------------------------------------------------------
(* BuildingGraph *)

\* Node.__init__ / BuildingGraph.add_node: a fresh Node replaces whatever
\* nodes[node_id] held.
AddNodeGraph(id, p) ==
    /\ nodes' = [n \in DOMAIN nodes \cup {id} |-> IF n = id THEN p ELSE nodes[n]]
    /\ neighbors' = [n \in DOMAIN nodes \cup {id} |->
                        IF n = id THEN EmptyFn ELSE neighbors[n]]

\* Variant: a distance given for a neighbour that is already present is added
\* to the stored one.
AddNeighborAccumulating(nbrs, neighbor_id, distance) ==
    [n \in DOMAIN nbrs \cup {neighbor_id} |->
        IF n = neighbor_id
        THEN (IF n \in DOMAIN nbrs THEN nbrs[n] + distance ELSE distance)
        ELSE nbrs[n]]

\* Node.add_neighbor
AddNeighbor(nbrs, neighbor_id, distance) ==
    [n \in DOMAIN nbrs \cup {neighbor_id} |->
        IF n = neighbor_id THEN distance ELSE nbrs[n]]

\* BuildingGraph.add_edge, on the neighbour maps
AddEdgeGraph(nbs, nds, a, b, d) ==
    IF a \in DOMAIN nds /\ b \in DOMAIN nds
    THEN LET n1 == [nbs EXCEPT ![a] = AddNeighbor(nbs[a], b, d)]
         IN  [n1 EXCEPT ![b] = AddNeighbor(n1[b], a, d)]
    ELSE nbs

AddNode(id, p) ==
    /\ pc = "build"
    /\ calls < MaxCalls
    /\ AddNodeGraph(id, p)
    /\ calls' = calls + 1
    /\ UNCHANGED <<special_locations, lookup, searchVars>>
    /\ UNCHANGED restVars

AddEdge(a, b, d) ==
    /\ pc = "build"
    /\ calls < MaxCalls
    /\ neighbors' = AddEdgeGraph(neighbors, nodes, a, b, d)
    /\ calls' = calls + 1
    /\ UNCHANGED <<nodes, special_locations, lookup, searchVars>>
    /\ UNCHANGED restVars

AddSpecialLocation(name, id) ==
    /\ pc = "build"
    /\ calls < MaxCalls
    /\ special_locations' = [n \in DOMAIN special_locations \cup {name} |->
                                IF n = name THEN id ELSE special_locations[n]]
    /\ calls' = calls + 1
    /\ UNCHANGED <<nodes, neighbors, lookup, searchVars>>
    /\ UNCHANGED restVars

\* get_node_by_location: nodes[node_id] raises KeyError for an id that is no node.
LookupOutcome(name) ==
    IF name \in DOMAIN special_locations
    THEN IF special_locations[name] \in DOMAIN nodes
         THEN [kind |-> "node", id |-> special_locations[name]]
         ELSE [kind |-> "KeyError", id |-> special_locations[name]]
    ELSE [kind |-> "None", id |-> "none"]

GetNodeByLocation(name) ==
    /\ pc = "build"
    /\ lookup' = LookupOutcome(name)
    /\ UNCHANGED <<nodes, neighbors, special_locations, calls, searchVars>>
    /\ UNCHANGED restVars

---------------------------------------------------------------------------
(* PathFinder *)

FloorUnit == 5

Square(n) == n * n

\* _heuristic, squared: (horizontal_dist**2 + floor_dist**2), the value whose
\* square root the code returns.
HeuristicSq(nds, n1, n2) ==
    LET dx == nds[n1].x - nds[n2].x
        dy == nds[n1].y - nds[n2].y
        df == nds[n1].floor - nds[n2].floor
        floor_dist == (IF df < 0 THEN -df ELSE df) * FloorUnit
    IN  (Square(dx) + Square(dy)) + Square(floor_dist)

\* g1 + sqrt(m1) < g2 + sqrt(m2), for integers g1, g2 and naturals m1, m2.
FLess(g1, m1, g2, m2) ==
    LET d == g2 - g1
    IN  IF d = 0 THEN m1 < m2
        ELSE IF d > 0
        THEN \* sqrt(m1) < d + sqrt(m2)
             LET k == m1 - Square(d) - m2
             IN  k < 0 \/ Square(k) < 4 * Square(d) * m2
        ELSE \* sqrt(m1) - d < sqrt(m2)
             LET k == m2 - Square(d) - m1
             IN  k > 0 /\ Square(k) > 4 * Square(d) * m1

\* Tuple order of the heap entries (f_score, node_id).
EntryLess(e1, e2) ==
    \/ FLess(e1.g, e1.h2, e2.g, e2.h2)
    \/ /\ ~FLess(e2.g, e2.h2, e1.g, e1.h2)
       /\ IdLess(e1.id, e2.id)

\* Variant: the entry popped is the greatest one.
HeapMax(heap) == CHOOSE e \in heap : \A o \in heap \ {e} : EntryLess(o, e)

\* heapq.heappop: the least entry.
HeapMin(heap) == CHOOSE e \in heap : \A o \in heap \ {e} : EntryLess(e, o)

\* Variant: only the key (current, neighbor) is looked up.
CongestionFactorForwardOnly(current_id, neighbor_id, cd) ==
    IF <<current_id, neighbor_id>> \in DOMAIN cd
    THEN 1 + cd[<<current_id, neighbor_id>>]
    ELSE 1

\* Lines 104-111: the congestion factor of the edge current -> neighbor.
CongestionFactor(current_id, neighbor_id, cd) ==
    IF <<current_id, neighbor_id>> \in DOMAIN cd
    THEN 1 + cd[<<current_id, neighbor_id>>]
    ELSE IF <<neighbor_id, current_id>> \in DOMAIN cd
         THEN 1 + cd[<<neighbor_id, current_id>>]
         ELSE 1

\* Line 113: distance = base_distance * congestion_factor
EdgeCost(current_id, neighbor_id, base_distance, cd) ==
    base_distance * CongestionFactor(current_id, neighbor_id, cd)

\* _reconstruct_path walks came_from back from current_id; Walk is the list
\* before the final reversal, `fuel` bounds the walk by the number of ids.
RECURSIVE Walk(_, _, _)
Walk(cf, current_id, fuel) ==
    IF current_id \in DOMAIN cf /\ fuel > 0
    THEN <<current_id>> \o Walk(cf, cf[current_id], fuel - 1)
    ELSE <<current_id>>

\* Variant: the walk is returned as it was built, goal first.
ReverseOmitted(s) == s

Reverse(s) == [i \in 1 .. Len(s) |-> s[Len(s) + 1 - i]]

\* Variant: the walk appends an id only while it has a predecessor, so the
\* root of the walk is left out.
ReconstructPathSkipRoot(cf, current_id) ==
    LET w == Walk(cf, current_id, Cardinality(DOMAIN nodes))
    IN  Reverse(SubSeq(w, 1, Len(w) - 1))

ReconstructPath(cf, current_id) ==
    Reverse(Walk(cf, current_id, Cardinality(DOMAIN nodes)))

\* Variant: `and` in place of `or` in the guard.
AbsentEndpointBoth(s, g) == s \notin DOMAIN nodes /\ g \notin DOMAIN nodes

\* Line 70: either end is missing from the graph.
AbsentEndpoint(s, g) == s \notin DOMAIN nodes \/ g \notin DOMAIN nodes

\* Variant: the exhausted search reconstructs a path from the goal.
ExhaustedResultReconstruct(cf, goal) == ReconstructPath(cf, goal)

\* Line 124: the frontier is exhausted.
ExhaustedResult(cf, goal) == <<>>

\* find_path up to the loop head (lines 70-88).  _heuristic(start, end) on
\* line 85 indexes graph.nodes and raises KeyError for a missing id.  The
\* f_score dict is written but never read, so it is not kept: the heap entries
\* carry the f values.  The graph is complete when the search starts, and the
\* count of building calls is cleared.
FindPath(s, g, cd) ==
    /\ pc = "build"
    /\ start_id' = s
    /\ end_id' = g
    /\ congestion_data' = cd
    /\ calls' = 0
    /\ IF AbsentEndpoint(s, g)
       THEN /\ pc' = "done"
            /\ result' = <<>>
            /\ UNCHANGED <<open_set, closed_set, g_score, came_from>>
       ELSE IF s \notin DOMAIN nodes \/ g \notin DOMAIN nodes
       THEN /\ pc' = "error"
            /\ open_set' = {[g |-> 0, h2 |-> 0, id |-> s]}
            /\ g_score' = [n \in {s} |-> 0]
            /\ UNCHANGED <<closed_set, came_from, result>>
       ELSE /\ pc' = "search"
            /\ open_set' = {[g |-> 0, h2 |-> 0, id |-> s]}
            /\ g_score' = [n \in {s} |-> 0]
            /\ UNCHANGED <<closed_set, came_from, result>>
    /\ UNCHANGED <<nodes, neighbors, special_locations, lookup, expanded>>
    /\ UNCHANGED restVars

\* Line 93-94: the popped entry is the goal.
ReturnPath ==
    /\ pc = "search"
    /\ open_set # {}
    /\ HeapMin(open_set).id = end_id
    /\ result' = ReconstructPath(came_from, end_id)
    /\ open_set' = open_set \ {HeapMin(open_set)}
    /\ pc' = "done"
    /\ UNCHANGED <<nodes, neighbors, special_locations, lookup, calls, start_id,
                   end_id, congestion_data, closed_set, g_score, came_from, expanded>>
    /\ UNCHANGED restVars

\* Lines 96-122: one iteration of the while loop that expands the popped node.
Expand ==
    /\ pc = "search"
    /\ open_set # {}
    /\ LET top == HeapMin(open_set)
           current_id == top.id
           closed == closed_set \cup {current_id}
           open == DOMAIN neighbors[current_id] \ closed
           tentative(n) == g_score[current_id]
                             + EdgeCost(current_id, n, neighbors[current_id][n],
                                        congestion_data)
           better == {n \in open : n \notin DOMAIN g_score \/ tentative(n) < g_score[n]}
       IN  /\ current_id # end_id
           /\ closed_set' = closed
           /\ expanded' = Append(expanded, current_id)
           /\ IF \E n \in better : n \notin DOMAIN nodes
              THEN /\ pc' = "error"
                   /\ UNCHANGED <<open_set, g_score, came_from>>
              ELSE /\ pc' = pc
                   /\ came_from' = [n \in DOMAIN came_from \cup better |->
                                       IF n \in better THEN current_id ELSE came_from[n]]
                   /\ g_score' = [n \in DOMAIN g_score \cup better |->
                                     IF n \in better THEN tentative(n) ELSE g_score[n]]
                   /\ open_set' = (open_set \ {top}) \cup
                                    {[g |-> tentative(n),
                                      h2 |-> HeuristicSq(nodes, n, end_id),
                                      id |-> n] : n \in better}
    /\ UNCHANGED <<nodes, neighbors, special_locations, lookup, calls, start_id,
                   end_id, congestion_data, result>>
    /\ UNCHANGED restVars

\* Variant: an exhausted frontier does not end the loop; the search stays
\* where it is.
ReturnEmptySpins ==
    /\ pc = "search"
    /\ open_set = {}
    /\ UNCHANGED vars

\* Line 90 fails, line 124: no path.
ReturnEmpty ==
    /\ pc = "search"
    /\ open_set = {}
    /\ result' = ExhaustedResult(came_from, end_id)
    /\ pc' = "done"
    /\ UNCHANGED <<nodes, neighbors, special_locations, lookup, calls, start_id,
                   end_id, congestion_data, open_set, closed_set, g_score,
                   came_from, expanded>>
    /\ UNCHANGED restVars

\* handle_navigation_request builds a fresh graph for every request.
NewRequest ==
    /\ pc \in {"done", "error"}
    /\ nodes' = EmptyFn
    /\ neighbors' = EmptyFn
    /\ special_locations' = EmptyFn
    /\ lookup' = [kind |-> "None", id |-> "none"]
    /\ calls' = 0
    /\ pc' = "build"
    /\ start_id' = "none"
    /\ end_id' = "none"
    /\ congestion_data' = EmptyFn
    /\ open_set' = {}
    /\ closed_set' = {}
    /\ g_score' = EmptyFn
    /\ came_from' = EmptyFn
    /\ expanded' = <<>>
    /\ result' = <<>>
    /\ UNCHANGED restVars

---------------------------------------------------------------------------
Init ==
    /\ nodes = EmptyFn
    /\ neighbors = EmptyFn
    /\ special_locations = EmptyFn
    /\ lookup = [kind |-> "None", id |-> "none"]
    /\ calls = 0
    /\ pc = "build"
    /\ start_id = "none"
    /\ end_id = "none"
    /\ congestion_data = EmptyFn
    /\ open_set = {}
    /\ closed_set = {}
    /\ g_score = EmptyFn
    /\ came_from = EmptyFn
    /\ expanded = <<>>
    /\ result = <<>>
    /\ live = EmptyFn
    /\ mid_search = 0
    /\ data_cache = EmptyFn
    /\ congestion_cache = EmptyFn
    /\ now = 0
    /\ est_ret = [op |-> "none"]
    /\ workers = EmptyFn
    /\ node_positions = EmptyFn
    /\ match_out = [op |-> "none"]

NextGraph ==
    \/ \E id \in NodeIds, p \in Positions : AddNode(id, p)
    \/ \E a \in NodeIds, b \in NodeIds, d \in Distances : AddEdge(a, b, d)
    \/ \E name \in Names, id \in NodeIds : AddSpecialLocation(name, id)
    \/ \E name \in Names : GetNodeByLocation(name)

SpecGraph == Init /\ [][NextGraph]_vars

Next ==
    \/ \E id \in NodeIds, p \in Positions : AddNode(id, p)
    \/ \E a \in NodeIds, b \in NodeIds, d \in Distances : AddEdge(a, b, d)
    \/ \E s \in NodeIds, g \in NodeIds, cd \in Snapshots : FindPath(s, g, cd)
    \/ ReturnPath
    \/ Expand
    \/ ReturnEmpty
    \/ NewRequest

Spec == Init /\ [][Next]_vars

---------------------------------------------------------------------------
(* Paths and costs of the graph, for the statements below *)

\* a -> b is an entry of a's neighbour map
HasEdge(a, b) == a \in DOMAIN neighbors /\ b \in DOMAIN neighbors[a]

\* Simple paths from s to g along neighbour entries.
Paths(s, g) ==
    {p \in UNION {[1 .. n -> DOMAIN nodes] : n \in 1 .. Cardinality(DOMAIN nodes)} :
        /\ p[1] = s
        /\ p[Len(p)] = g
        /\ \A i, j \in 1 .. Len(p) : i # j => p[i] # p[j]
        /\ \A i \in 1 .. Len(p) - 1 : HasEdge(p[i], p[i + 1])}

RECURSIVE PathCostFrom(_, _, _)
PathCostFrom(p, i, cd) ==
    IF i >= Len(p) THEN 0
    ELSE EdgeCost(p[i], p[i + 1], neighbors[p[i]][p[i + 1]], cd)
           + PathCostFrom(p, i + 1, cd)

\* Sum over the path's edges of baseDistance x (1 + 2 x rate).
PathCost(p, cd) == PathCostFrom(p, 1, cd)

MinCost(s, g, cd) ==
    LET costs == {PathCost(p, cd) : p \in Paths(s, g)}
    IN  CHOOSE c \in costs : \A o \in costs : c <= o

NonNegativeDistances ==
    \A a \in DOMAIN neighbors : \A b \in DOMAIN neighbors[a] : neighbors[a][b] >= 0

\* The nodes joined to the set S by a chain of edges, taken in either direction.
RECURSIVE Component(_)
Component(S) ==
    LET T == S \cup {n \in DOMAIN nodes : \E m \in S : HasEdge(m, n) \/ HasEdge(n, m)}
    IN  IF T = S THEN S ELSE Component(T)

Joined(a, b) == b \in Component({a})

BothPresent == start_id \in DOMAIN nodes /\ end_id \in DOMAIN nodes

---------------------------------------------------------------------------
(* Statements *)

\* C1: for every graph, every snapshot with rates in [0,1] and every connected
\* start and goal, find_path returns a path of minimum total cost.  Stated for
\* the graphs whose distances are all non-negative, so that a violation does not
\* rest on the negative distances of C10.
C1_ReturnsMinimumCostPath ==
    (pc = "done" /\ BothPresent /\ NonNegativeDistances
       /\ Paths(start_id, end_id) # {})
    => /\ result \in Paths(start_id, end_id)
       /\ PathCost(result, congestion_data) = MinCost(start_id, end_id, congestion_data)

\* C2: find_path(x, x) with an empty snapshot returns exactly [x], whatever
\* edges, self-loops or neighbours x has.
C2_SameStartAndGoal ==
    (pc = "done" /\ start_id = end_id /\ start_id \in DOMAIN nodes
       /\ congestion_data = EmptyFn)
    => result = <<start_id>>

C2_Witness ==
    /\ pc = "done"
    /\ start_id = end_id
    /\ start_id \in DOMAIN nodes
    /\ congestion_data = EmptyFn
    /\ HasEdge(start_id, start_id)
    /\ \E n \in DOMAIN nodes \ {start_id} : HasEdge(start_id, n)
    /\ result = <<start_id>>

\* C3: when start and goal are both nodes but no chain of edges joins them,
\* find_path returns the empty path, for every snapshot.
C3_NoPathAcrossComponents ==
    (pc = "done" /\ BothPresent /\ ~Joined(start_id, end_id)) => result = <<>>

C3_Witness ==
    /\ pc = "done"
    /\ BothPresent
    /\ ~Joined(start_id, end_id)
    /\ Len(expanded) >= 2
    /\ congestion_data # EmptyFn
    /\ result = <<>>

\* C4: when the start id or the goal id is no node of the graph, find_path
\* returns the empty path, expands no node and raises no error.
C4_AbsentEndpointReturnsEmpty ==
    (pc # "build" /\ ~BothPresent)
    => /\ pc = "done"
       /\ result = <<>>
       /\ expanded = <<>>
       /\ closed_set = {}
       /\ open_set = {}

C4_Witness ==
    /\ pc = "done"
    /\ start_id \in DOMAIN nodes
    /\ end_id \notin DOMAIN nodes
    /\ \E n \in DOMAIN nodes \ {start_id} : HasEdge(start_id, n)
    /\ result = <<>>
    /\ expanded = <<>>

\* C5: raising one rate of the snapshot (the others unchanged) never decreases
\* the cost find_path assigns to an edge, never lowers the total cost of a
\* start-to-goal path, and so never lowers the minimum path cost.
C5_RaisingRateNeverLowersCost ==
    pc = "search" =>
      \A k \in DOMAIN congestion_data :
        \A r \in {q \in Rates : q > congestion_data[k]} :
          LET raised == [congestion_data EXCEPT ![k] = r]
          IN  /\ \A a \in DOMAIN neighbors : \A b \in DOMAIN neighbors[a] :
                    EdgeCost(a, b, neighbors[a][b], raised)
                      >= EdgeCost(a, b, neighbors[a][b], congestion_data)
              /\ \A p \in Paths(start_id, end_id) :
                    PathCost(p, raised) >= PathCost(p, congestion_data)
              /\ Paths(start_id, end_id) # {}
                    => MinCost(start_id, end_id, raised)
                         >= MinCost(start_id, end_id, congestion_data)

\* C6: for every snapshot, whichever of the keys (A,B), (B,A) or both it
\* holds, the cost of traversing an edge A to B equals the cost of traversing
\* it B to A, and it is baseDistance x (1 + 2 x rate of the pair), or
\* baseDistance when the snapshot has no rate for the pair.  Stated for the
\* graphs whose distances are all non-negative (see C10).
C6_EdgeCostDirectionAgnostic ==
    (pc = "search" /\ NonNegativeDistances) =>
      \A a \in DOMAIN neighbors : \A b \in DOMAIN neighbors[a] :
        HasEdge(b, a) =>
          LET cost == EdgeCost(a, b, neighbors[a][b], congestion_data)
              keys == {<<a, b>>, <<b, a>>} \cap DOMAIN congestion_data
          IN  /\ cost = EdgeCost(b, a, neighbors[b][a], congestion_data)
              /\ \A k \in keys : cost = neighbors[a][b] * (1 + congestion_data[k])
              /\ keys = {} => cost = neighbors[a][b]

\* C7: add_node with an id that is already present leaves the graph unchanged:
\* the node, its coordinates and its neighbour map are not overwritten.
C7_DuplicateAddNodeKeepsGraph ==
    [][\A id \in NodeIds, p \in Positions :
          (id \in DOMAIN nodes /\ AddNode(id, p))
          => (nodes' = nodes /\ neighbors' = neighbors)]_vars

\* C8: B is a neighbour of A with weight w if and only if A is a neighbour of B
\* with the same weight w.
C8_EdgeSymmetry ==
    \A a \in DOMAIN neighbors : \A b \in DOMAIN neighbors[a] :
        HasEdge(b, a) /\ neighbors[b][a] = neighbors[a][b]

\* C9: every id stored in the name index is the id of an existing node, and
\* get_node_by_location returns a node or None and never raises.
C9_NameIndexResolves ==
    /\ \A name \in DOMAIN special_locations : special_locations[name] \in DOMAIN nodes
    /\ lookup.kind # "KeyError"

\* C10: add_edge with a negative distance leaves the graph unchanged, so every
\* neighbour distance of a reachable graph is non-negative.
C10_DistancesNonNegative ==
    \A a \in DOMAIN neighbors : \A b \in DOMAIN neighbors[a] : neighbors[a][b] >= 0

---------------------------------------------------------------------------
(***************************************************************************)
(* CongestionProcessor of backend/core/congestion_processor.py.            *)
(*                                                                         *)
(* Numbers.  Time is counted in cooldown periods of 0.5 s, so the expiry   *)
(* horizon of 300 s is 600, the memo window of 60 s is 120 and a minute is *)
(* 120.  A sample has y = z = 0 and x >= 0, so its magnitude               *)
(* (x^2 + y^2 + z^2)^0.5 is x; x is counted in tenths.  Rates are exact    *)
(* fractions [n, d] in lowest terms.                                       *)
(***************************************************************************)
RECURSIVE GCD(_, _)
GCD(a, b) == IF b = 0 THEN a ELSE GCD(b, a % b)

Abs(n) == IF n < 0 THEN 0 - n ELSE n

\* The fraction n / d (d # 0) in lowest terms with a positive denominator.
Frac(n, d) ==
    LET g == GCD(Abs(n), Abs(d))
        sgn == IF d < 0 THEN 0 - 1 ELSE 1
    IN  [n |-> sgn * (n \div g), d |-> sgn * (d \div g)]

FAdd(p, q) == Frac(p.n * q.d + q.n * p.d, p.d * q.d)

FMul(p, q) == Frac(p.n * q.n, p.d * q.d)

FLeq(p, q) == p.n * q.d <= q.n * p.d

FMin(p, q) == IF FLeq(p, q) THEN p ELSE q

FMax(p, q) == IF FLeq(p, q) THEN q ELSE p

FZero == Frac(0, 1)

FOne == Frac(1, 1)

expiry_time == 600      \* 300 s
memo_window == 120      \* 60 s
step_threshold == 12    \* 1.2
step_cooldown == 1      \* 0.5 s
minute == 120           \* 60 s

MaxSamples == 2         \* samples held by the estimator at once
MaxBatch == 2           \* entries of one batch

Locations == {"path_a_b", "hall"}
Users == {"u1", "u2"}
EdgeNodeIds == {"a", "b"}
SampleTimes == {2, 4}
ClockInstants == {500, 603}
Magnitudes == {10, 50}

\* AccelerometerData (lines 11-24): every kind of sample on the edge a-b, and
\* the samples of one user standing in the hall.
Samples ==
    [x : Magnitudes, timestamp : SampleTimes, user_id : Users,
     location_id : {"path_a_b"}]
    \cup [x : {10}, timestamp : SampleTimes, user_id : {"u1"}, location_id : {"hall"}]

\* A batch entry that lacks its timestamp.
Malformed == [x : {10}, user_id : {"u1"}, location_id : {"hall"}]

Magnitude(d) == d.x

\* Lines 62-67: the samples of a list that are younger than the horizon.
Unexpired(list, current_time) ==
    SelectSeq(list, LAMBDA d : current_time - d.timestamp < expiry_time)

\* Variant: nothing is evicted.
CleanExpiredDataKeepsAll(dc, location_id, current_time) == dc

\* _clean_expired_data (lines 58-67).
CleanExpiredData(dc, location_id, current_time) ==
    IF location_id \notin DOMAIN dc
    THEN dc
    ELSE [dc EXCEPT ![location_id] = Unexpired(dc[location_id], current_time)]

\* add_data_point (lines 47-56).
AddDataPointCache(dc, data, current_time) ==
    LET loc == data.location_id
        created == IF loc \in DOMAIN dc
                   THEN dc
                   ELSE [l \in DOMAIN dc \cup {loc} |-> IF l = loc THEN <<>> ELSE dc[l]]
        appended == [created EXCEPT ![loc] = Append(created[loc], data)]
    IN  CleanExpiredData(appended, loc, current_time)

\* user_data.sort(key=timestamp) on line 106: a stable sort.
RECURSIVE SortByTimestamp(_)
SortByTimestamp(list) ==
    IF list = <<>>
    THEN <<>>
    ELSE LET sorted == SortByTimestamp(SubSeq(list, 1, Len(list) - 1))
             last == list[Len(list)]
             before == SelectSeq(sorted, LAMBDA d : d.timestamp <= last.timestamp)
             after == SelectSeq(sorted, LAMBDA d : d.timestamp > last.timestamp)
         IN  before \o <<last>> \o after

\* Lines 109-115: the loop that counts steps, from index i on.
RECURSIVE CountSteps(_, _, _)
CountSteps(user_data, i, last_step_time) ==
    IF i > Len(user_data)
    THEN 0
    ELSE IF Magnitude(user_data[i]) > step_threshold
            /\ user_data[i].timestamp - last_step_time > step_cooldown
         THEN 1 + CountSteps(user_data, i + 1, user_data[i].timestamp)
         ELSE CountSteps(user_data, i + 1, last_step_time)

UserData(location_data, user_id) ==
    SortByTimestamp(SelectSeq(location_data, LAMBDA d : d.user_id = user_id))

UsersOf(location_data) == {location_data[i].user_id : i \in 1 .. Len(location_data)}

\* Lines 118-119: the time span of a user's samples, in cooldown periods.
TimeSpan(user_data) == user_data[Len(user_data)].timestamp - user_data[1].timestamp

\* Lines 103-122: user_speeds, steps per minute of every user with a positive span.
UserSpeeds(location_data) ==
    LET timed == {u \in UsersOf(location_data) :
                     TimeSpan(UserData(location_data, u)) > 0}
    IN  [u \in timed |->
            Frac(CountSteps(UserData(location_data, u), 1, 0) * minute,
                 TimeSpan(UserData(location_data, u)))]

RECURSIVE SumValues(_, _)
SumValues(f, keys) ==
    IF keys = {}
    THEN FZero
    ELSE LET k == CHOOSE k \in keys : TRUE
         IN  FAdd(f[k], SumValues(f, keys \ {k}))

\* Variant: with no user speed the average is the baseline of 100 steps per
\* minute.
AvgSpeedBaseline(location_data) ==
    LET user_speeds == UserSpeeds(location_data)
    IN  IF DOMAIN user_speeds # {}
        THEN FMul(SumValues(user_speeds, DOMAIN user_speeds),
                  Frac(1, Cardinality(DOMAIN user_speeds)))
        ELSE Frac(100, 1)

\* Lines 125-128.
AvgSpeed(location_data) ==
    LET user_speeds == UserSpeeds(location_data)
    IN  IF DOMAIN user_speeds # {}
        THEN FMul(SumValues(user_speeds, DOMAIN user_speeds),
                  Frac(1, Cardinality(DOMAIN user_speeds)))
        ELSE FZero

\* Variant: the speed factor without its clamp.
SpeedFactorUnclamped(avg_speed) == FAdd(FOne, FMul(Frac(0 - 1, 100), avg_speed))

\* Line 132: max(0, min(1, 1 - avg_speed / 100)).
SpeedFactor(avg_speed) ==
    FMax(FZero, FMin(FOne, FAdd(FOne, FMul(Frac(0 - 1, 100), avg_speed))))

RECURSIVE SumMagnitudes(_, _, _)
SumMagnitudes(location_data, i, power) ==
    IF i > Len(location_data)
    THEN 0
    ELSE (IF power = 2 THEN Magnitude(location_data[i]) * Magnitude(location_data[i])
                       ELSE Magnitude(location_data[i]))
         + SumMagnitudes(location_data, i + 1, power)

\* np.var on line 137: the population variance, here in hundredths.
Variance(location_data) ==
    LET n == Len(location_data)
        s1 == SumMagnitudes(location_data, 1, 1)
        s2 == SumMagnitudes(location_data, 1, 2)
    IN  Frac(n * s2 - s1 * s1, n * n)

\* Lines 135-141: min(1, variance / 5), or 0 for a single sample.
VarianceFactor(location_data) ==
    IF Len(location_data) > 1
    THEN FMin(FOne, FMul(Variance(location_data), Frac(1, 5 * 100)))
    ELSE FZero

\* Line 144: min(1, unique_users / 20).
DensityFactor(location_data) ==
    FMin(FOne, Frac(Cardinality(UsersOf(location_data)), 20))

\* Lines 147-151: 0.5 * speed + 0.3 * variance + 0.2 * density.
CongestionRate(location_data) ==
    FAdd(FAdd(FMul(Frac(1, 2), SpeedFactor(AvgSpeed(location_data))),
              FMul(Frac(3, 10), VarianceFactor(location_data))),
         FMul(Frac(1, 5), DensityFactor(location_data)))

Put(f, k, v) == [x \in DOMAIN f \cup {k} |-> IF x = k THEN v ELSE f[x]]

\* Variant: a memoized rate is fresh only for a call made before it was stored.
MemoFreshBackwards(cc, location_id, current_time) ==
    /\ location_id \in DOMAIN cc
    /\ current_time - cc[location_id].timestamp < 0

\* Lines 81-83: the location has a memoized rate younger than the window.
MemoFresh(cc, location_id, current_time) ==
    /\ location_id \in DOMAIN cc
    /\ current_time - cc[location_id].timestamp < memo_window

\* calculate_congestion (lines 69-157): the rate returned and the two caches
\* as the call leaves them.
CalculateCongestionOf(dc, cc, location_id, current_time) ==
    IF MemoFresh(cc, location_id, current_time)
    THEN [rate |-> cc[location_id].rate, dc |-> dc, cc |-> cc]
    ELSE LET cleaned == CleanExpiredData(dc, location_id, current_time)
         IN  IF location_id \notin DOMAIN cleaned \/ cleaned[location_id] = <<>>
             THEN [rate |-> FZero, dc |-> cleaned, cc |-> cc]
             ELSE LET congestion_rate == CongestionRate(cleaned[location_id])
                  IN  [rate |-> congestion_rate,
                       dc |-> cleaned,
                       cc |-> Put(cc, location_id,
                                  [rate |-> congestion_rate,
                                   timestamp |-> current_time])]

\* Variant: every tracked location gets an entry, an empty record too.
GetAllCongestionRatesEvery(dc, cc, current_time, todo, rates) ==
    [rates |-> [l \in DOMAIN rates \cup todo |->
                   IF l \in todo
                   THEN CalculateCongestionOf(dc, cc, l, current_time).rate
                   ELSE rates[l]],
     dc |-> [l \in DOMAIN dc |-> Unexpired(dc[l], current_time)],
     cc |-> cc]

\* get_all_congestion_rates (lines 159-166), over the locations still to visit.
RECURSIVE GetAllCongestionRates(_, _, _, _, _)
GetAllCongestionRates(dc, cc, current_time, todo, rates) ==
    IF todo = {}
    THEN [rates |-> rates, dc |-> dc, cc |-> cc]
    ELSE LET location_id == CHOOSE l \in todo : TRUE
             cleaned == CleanExpiredData(dc, location_id, current_time)
         IN  IF cleaned[location_id] # <<>>
             THEN LET c == CalculateCongestionOf(cleaned, cc, location_id, current_time)
                  IN  GetAllCongestionRates(c.dc, c.cc, current_time,
                                            todo \ {location_id},
                                            Put(rates, location_id, c.rate))
             ELSE GetAllCongestionRates(cleaned, cc, current_time,
                                        todo \ {location_id}, rates)

\* Python's order of the node ids used here.
StrRank(id) ==
    CASE id = "a" -> 1 [] id = "a_b" -> 2 [] id = "b" -> 3 [] id = "b_b" -> 4
      [] OTHER -> 0

MinId(a, b) == IF StrRank(a) <= StrRank(b) THEN a ELSE b

MaxId(a, b) == IF StrRank(a) <= StrRank(b) THEN b ELSE a

\* Variant: the key takes the ids in argument order.
PathIdInOrder(node1_id, node2_id) == "path_" \o node1_id \o "_" \o node2_id

\* Line 179: f"path_{min(node1_id, node2_id)}_{max(node1_id, node2_id)}".
PathId(node1_id, node2_id) ==
    "path_" \o MinId(node1_id, node2_id) \o "_" \o MaxId(node1_id, node2_id)

RequiredFields == {"x", "timestamp", "user_id", "location_id"}

\* Lines 194-203: the loop over the batch, from entry i on.  Building the
\* AccelerometerData raises KeyError at the first entry that lacks a field;
\* the entries before it are already in data_cache.
RECURSIVE IngestBatch(_, _, _, _)
IngestBatch(dc, data_batch, i, current_time) ==
    IF i > Len(data_batch)
    THEN [error |-> FALSE, dc |-> dc]
    ELSE IF ~(RequiredFields \subseteq DOMAIN data_batch[i])
         THEN [error |-> TRUE, dc |-> dc]
         ELSE IngestBatch(AddDataPointCache(dc, data_batch[i], current_time),
                          data_batch, i + 1, current_time)

RECURSIVE TotalSamples(_, _)
TotalSamples(dc, locs) ==
    IF locs = {}
    THEN 0
    ELSE LET l == CHOOSE l \in locs : TRUE
         IN  Len(dc[l]) + TotalSamples(dc, locs \ {l})

Held == TotalSamples(data_cache, DOMAIN data_cache)

Batches == UNION {[1 .. n -> Samples \cup Malformed] : n \in 0 .. MaxBatch}

navIdle == UNCHANGED <<navVars, live, mid_search, workers, matchVars>>

\* time.time() moves on.
Tick(t) ==
    /\ t > now
    /\ now' = t
    /\ UNCHANGED <<data_cache, congestion_cache, est_ret>>
    /\ navIdle

AddDataPoint(data) ==
    /\ Held < MaxSamples
    /\ data_cache' = AddDataPointCache(data_cache, data, now)
    /\ est_ret' = [op |-> "add_data_point", location_id |-> data.location_id,
                   time |-> now]
    /\ UNCHANGED <<congestion_cache, now>>
    /\ navIdle

CalculateCongestion(location_id) ==
    /\ LET c == CalculateCongestionOf(data_cache, congestion_cache, location_id, now)
       IN  /\ data_cache' = c.dc
           /\ congestion_cache' = c.cc
           /\ est_ret' = [op |-> "calculate_congestion",
                          location_id |-> location_id, rate |-> c.rate,
                          time |-> now]
    /\ UNCHANGED now
    /\ navIdle

\* get_congestion_between_nodes (lines 168-181).  The record of the call
\* keeps the call made just before it when that one was of the same kind and
\* at the same instant.
GetCongestionBetweenNodes(node1_id, node2_id) ==
    /\ LET path_id == PathId(node1_id, node2_id)
           c == CalculateCongestionOf(data_cache, congestion_cache, path_id, now)
       IN  /\ data_cache' = c.dc
           /\ congestion_cache' = c.cc
           /\ est_ret' = [op |-> "get_congestion_between_nodes",
                          node1_id |-> node1_id, node2_id |-> node2_id,
                          location_id |-> path_id, rate |-> c.rate, time |-> now,
                          before |-> IF est_ret.op = "get_congestion_between_nodes"
                                        /\ est_ret.time = now
                                     THEN <<[node1_id |-> est_ret.node1_id,
                                             node2_id |-> est_ret.node2_id,
                                             location_id |-> est_ret.location_id,
                                             rate |-> est_ret.rate]>>
                                     ELSE <<>>]
    /\ UNCHANGED now
    /\ navIdle

\* process_accelerometer_batch (lines 183-206).
ProcessAccelerometerBatch(data_batch) ==
    /\ Held + Len(data_batch) <= MaxSamples
    /\ LET in == IngestBatch(data_cache, data_batch, 1, now)
           all == GetAllCongestionRates(in.dc, congestion_cache, now,
                                        DOMAIN in.dc, EmptyFn)
       IN  IF in.error
           THEN /\ data_cache' = in.dc
                /\ est_ret' = [op |-> "process_accelerometer_batch",
                               error |-> TRUE]
                /\ UNCHANGED congestion_cache
           ELSE /\ data_cache' = all.dc
                /\ congestion_cache' = all.cc
                /\ est_ret' = [op |-> "process_accelerometer_batch",
                               error |-> FALSE,
                               rates |-> all.rates,
                               tracked |-> DOMAIN data_cache,
                               batch_locations |->
                                   {data_batch[i].location_id :
                                        i \in 1 .. Len(data_batch)}]
    /\ UNCHANGED now
    /\ navIdle

NextEstimator ==
    \/ \E t \in ClockInstants : Tick(t)
    \/ \E data \in Samples : AddDataPoint(data)
    \/ \E location_id \in Locations : CalculateCongestion(location_id)
    \/ \E a \in EdgeNodeIds, b \in EdgeNodeIds : GetCongestionBetweenNodes(a, b)
    \/ \E data_batch \in Batches : ProcessAccelerometerBatch(data_batch)

SpecEstimator == Init /\ [][NextEstimator]_vars

---------------------------------------------------------------------------
(* Statements about the estimator *)

SwappedPair ==
    /\ est_ret.op = "get_congestion_between_nodes"
    /\ est_ret.before # <<>>
    /\ est_ret.before[1].node1_id = est_ret.node2_id
    /\ est_ret.before[1].node2_id = est_ret.node1_id

\* C11: get_congestion_between_nodes(a, b) and get_congestion_between_nodes(b, a),
\* called one after the other at the same instant, resolve to the same location
\* key and return the same rate.
C11_BetweenNodesSymmetric ==
    SwappedPair =>
        /\ est_ret.before[1].location_id = est_ret.location_id
        /\ est_ret.before[1].rate = est_ret.rate

\* The two calls were made for two different nodes whose edge holds samples.
C11_Witness ==
    /\ SwappedPair
    /\ est_ret.node1_id # est_ret.node2_id
    /\ est_ret.location_id \in DOMAIN data_cache
    /\ data_cache[est_ret.location_id] # <<>>
    /\ est_ret.rate # FZero

InUnitInterval(r) == FLeq(FZero, r) /\ FLeq(r, FOne)

\* C12: every rate returned by calculate_congestion,
\* get_congestion_between_nodes or process_accelerometer_batch, and every rate
\* held in the memo cache, lies in the closed interval [0, 1].
C12_RatesInUnitInterval ==
    /\ est_ret.op \in {"calculate_congestion", "get_congestion_between_nodes"}
          => InUnitInterval(est_ret.rate)
    /\ (est_ret.op = "process_accelerometer_batch" /\ ~est_ret.error)
          => \A l \in DOMAIN est_ret.rates : InUnitInterval(est_ret.rates[l])
    /\ \A l \in DOMAIN congestion_cache : InUnitInterval(congestion_cache[l].rate)

\* A batch returned and memoized the rate of a location whose users walk
\* faster than 100 steps a minute, where 1 - avg_speed / 100 is negative.
C12_Witness ==
    /\ est_ret.op = "process_accelerometer_batch"
    /\ ~est_ret.error
    /\ \E l \in DOMAIN est_ret.rates :
          /\ l \in DOMAIN congestion_cache
          /\ congestion_cache[l].timestamp = now
          /\ data_cache[l] # <<>>
          /\ ~FLeq(AvgSpeed(data_cache[l]), Frac(100, 1))

\* C13: a calculate_congestion(L) call made while L has a memoized rate
\* younger than the 60 s window returns exactly that rate and changes neither
\* the sample records nor the memo, whatever was ingested or has expired since
\* the rate was stored.
C13_FreshMemoReturnedUnchanged ==
    [][\A l \in Locations :
          (/\ CalculateCongestion(l)
           /\ l \in DOMAIN congestion_cache
           /\ now - congestion_cache[l].timestamp < memo_window)
          => /\ est_ret'.rate = congestion_cache[l].rate
             /\ data_cache' = data_cache
             /\ congestion_cache' = congestion_cache]_vars

\* A call answered from a memo stored at an earlier instant, for a location
\* whose record now holds expired samples and no longer yields the memoized
\* rate.
C13_Witness ==
    /\ est_ret.op = "calculate_congestion"
    /\ est_ret.location_id \in DOMAIN congestion_cache
    /\ congestion_cache[est_ret.location_id].timestamp < now
    /\ now - congestion_cache[est_ret.location_id].timestamp < memo_window
    /\ est_ret.rate = congestion_cache[est_ret.location_id].rate
    /\ Unexpired(data_cache[est_ret.location_id], now) # data_cache[est_ret.location_id]
    /\ Unexpired(data_cache[est_ret.location_id], now) # <<>>
    /\ CongestionRate(Unexpired(data_cache[est_ret.location_id], now)) # est_ret.rate

HasMalformed(data_batch) ==
    \E i \in 1 .. Len(data_batch) : ~(RequiredFields \subseteq DOMAIN data_batch[i])

\* C14: process_accelerometer_batch on a batch with an entry (at any position)
\* that lacks a required field fails and leaves the sample records and the memo
\* cache exactly as they were.
C14_BatchAllOrNothing ==
    [][\A data_batch \in Batches :
          (ProcessAccelerometerBatch(data_batch) /\ HasMalformed(data_batch))
          => /\ est_ret'.error
             /\ data_cache' = data_cache
             /\ congestion_cache' = congestion_cache]_vars

BatchReturned == est_ret.op = "process_accelerometer_batch" /\ ~est_ret.error

\* C15 as stated: the mapping returned by process_accelerometer_batch has an
\* entry for every location id of the batch and for every location id tracked
\* before the call.
C15_EntryForEveryLocation ==
    BatchReturned =>
        (est_ret.batch_locations \cup est_ret.tracked) \subseteq DOMAIN est_ret.rates

\* C15, amended: the mapping returned by process_accelerometer_batch has an
\* entry for exactly those location ids, of the batch or tracked before the
\* call, whose record holds at least one unexpired sample once the batch is
\* ingested.
C15_EntryForEveryLocationWithSamples ==
    BatchReturned =>
        DOMAIN est_ret.rates =
            {l \in est_ret.batch_locations \cup est_ret.tracked : data_cache[l] # <<>>}

\* A batch for one location was answered while another tracked location had
\* lost all its samples to expiry.
C15_Witness ==
    /\ BatchReturned
    /\ DOMAIN est_ret.rates # {}
    /\ \E l \in est_ret.tracked : data_cache[l] = <<>> /\ l \notin est_ret.batch_locations
    /\ \E l \in est_ret.batch_locations : l \in DOMAIN est_ret.rates

NoneExpired(dc, location_id, current_time) ==
    location_id \in DOMAIN dc
        => Unexpired(dc[location_id], current_time) = dc[location_id]

\* C16 as stated: right after every add_data_point or calculate_congestion
\* call for L, L's record holds no sample whose age has reached the expiry
\* horizon, and no record is ever deleted.
C16_NoExpiredSampleAfterCall ==
    [][/\ \A data \in Samples :
             AddDataPoint(data) => NoneExpired(data_cache', data.location_id, now)
       /\ \A l \in Locations :
             CalculateCongestion(l) => NoneExpired(data_cache', l, now)
       /\ DOMAIN data_cache \subseteq DOMAIN data_cache']_vars

\* C16, amended: right after every add_data_point call for L, and after every
\* calculate_congestion call for L that is not answered from a fresh memo, L's
\* record holds no sample whose age has reached the expiry horizon; no record
\* is ever deleted.
C16_NoExpiredSampleAfterRecompute ==
    [][/\ \A data \in Samples :
             AddDataPoint(data) => NoneExpired(data_cache', data.location_id, now)
       /\ \A l \in Locations :
             (CalculateCongestion(l) /\ ~MemoFresh(congestion_cache, l, now))
                => NoneExpired(data_cache', l, now)
       /\ DOMAIN data_cache \subseteq DOMAIN data_cache']_vars

\* A calculate_congestion call found a stale memo, evicted every sample of the
\* record and left the record empty.
C16_Witness ==
    /\ est_ret.op = "calculate_congestion"
    /\ est_ret.time = now
    /\ est_ret.location_id \in DOMAIN congestion_cache
    /\ now - congestion_cache[est_ret.location_id].timestamp >= memo_window
    /\ est_ret.location_id \in DOMAIN data_cache
    /\ data_cache[est_ret.location_id] = <<>>
    /\ est_ret.rate = FZero

---------------------------------------------------------------------------
(***************************************************************************)
(* ModelPathMatcher of backend/core/model_matcher.py.                      *)
(*                                                                         *)
(* Numbers.  model_scale is 1.0, so model coordinates of registered nodes  *)
(* are integers; the coordinates of returned points are exact fractions.   *)
(***************************************************************************)
floor_height == 4

MaxPath == 3            \* ids in a path

MatchIds == {"A", "B"}
MatchPositions ==
    {[x |-> 0, y |-> 0, floor |-> 0], [x |-> 2, y |-> 1, floor |-> 0],
     [x |-> 2, y |-> 1, floor |-> 1]}
PointsPerSegment == {1, 2}
\* Paths may name "X", an id that is never registered.
MatchPaths == UNION {[1 .. n -> MatchIds \cup {"X"}] : n \in 0 .. MaxPath}

\* register_node (lines 41-55), with model_scale = 1.0.
RegisterNodePositions(np, node_id, x, y, floor) ==
    Put(np, node_id, [x |-> x, y |-> floor * floor_height, z |-> y])

\* Point3D.to_dict (lines 15-21).
ToDict(p) == [x |-> Frac(p.x, 1), y |-> Frac(p.y, 1), z |-> Frac(p.z, 1)]

\* path_to_3d_coordinates (lines 72-86), from index i on.
RECURSIVE PathTo3dCoordinatesFrom(_, _, _)
PathTo3dCoordinatesFrom(np, path, i) ==
    IF i > Len(path)
    THEN <<>>
    ELSE (IF path[i] \in DOMAIN np THEN <<ToDict(np[path[i]])>> ELSE <<>>)
         \o PathTo3dCoordinatesFrom(np, path, i + 1)

PathTo3dCoordinates(np, path) == PathTo3dCoordinatesFrom(np, path, 1)

\* Lines 118-121: start + j / points_per_segment * (end - start).
Interpolate(a, b, j, points_per_segment) ==
    Frac(a * points_per_segment + j * (b - a), points_per_segment)

\* Lines 116-127: the points between the start and the end of a segment.
InterpolatedPoints(start_pos, end_pos, points_per_segment) ==
    [j \in 1 .. points_per_segment - 1 |->
        [x |-> Interpolate(start_pos.x, end_pos.x, j, points_per_segment),
         y |-> Interpolate(start_pos.y, end_pos.y, j, points_per_segment),
         z |-> Interpolate(start_pos.z, end_pos.z, j, points_per_segment)]]

\* Lines 103-127: the loop over the segments, from segment i on.
RECURSIVE SmoothSegmentsFrom(_, _, _, _)
SmoothSegmentsFrom(np, path, i, points_per_segment) ==
    IF i > Len(path) - 1
    THEN <<>>
    ELSE (IF path[i] \notin DOMAIN np \/ path[i + 1] \notin DOMAIN np
          THEN <<>>
          ELSE <<ToDict(np[path[i]])>>
               \o InterpolatedPoints(np[path[i]], np[path[i + 1]], points_per_segment))
         \o SmoothSegmentsFrom(np, path, i + 1, points_per_segment)

\* Variant: the last point of the path is not appended.
FinalPointNone(np, path) == <<>>

\* Lines 129-131: the final point.
FinalPoint(np, path) ==
    IF path # <<>> /\ path[Len(path)] \in DOMAIN np
    THEN <<ToDict(np[path[Len(path)]])>>
    ELSE <<>>

\* generate_smooth_path (lines 88-133).
GenerateSmoothPath(np, path, points_per_segment) ==
    IF Len(path) < 2
    THEN PathTo3dCoordinates(np, path)
    ELSE SmoothSegmentsFrom(np, path, 1, points_per_segment) \o FinalPoint(np, path)

\* Line 161's tolerance of 0.1 model units, in tenths.
floor_change_tolerance == 1

\* Variant: the heights compared are the z coordinates.
IsFloorChangeAlongZ(start_pos, end_pos) ==
    10 * Abs(start_pos.z - end_pos.z) > floor_change_tolerance

\* Line 161: is_floor_change = abs(start_pos.y - end_pos.y) > 0.1
IsFloorChange(start_pos, end_pos) ==
    10 * Abs(start_pos.y - end_pos.y) > floor_change_tolerance

\* Lines 150-169: the loop of generate_path_segments from index i on; a pair
\* with an id that node_positions.get does not find is passed over.
RECURSIVE GeneratePathSegmentsFrom(_, _, _)
GeneratePathSegmentsFrom(np, path, i) ==
    IF i > Len(path) - 1 THEN <<>>
    ELSE LET start_node_id == path[i]
             end_node_id == path[i + 1]
         IN  (IF start_node_id \notin DOMAIN np \/ end_node_id \notin DOMAIN np
              THEN <<>>
              ELSE <<[start |-> ToDict(np[start_node_id]),
                      end |-> ToDict(np[end_node_id]),
                      is_floor_change |-> IsFloorChange(np[start_node_id],
                                                        np[end_node_id]),
                      start_node_id |-> start_node_id,
                      end_node_id |-> end_node_id]>>)
             \o GeneratePathSegmentsFrom(np, path, i + 1)

\* generate_path_segments (lines 135-171).
GeneratePathSegments(np, path) ==
    IF Len(path) < 2 THEN <<>> ELSE GeneratePathSegmentsFrom(np, path, 1)

matchIdle == UNCHANGED <<navVars, live, mid_search, estVars, workers>>

RegisterNode(node_id, p) ==
    /\ node_positions' = RegisterNodePositions(node_positions, node_id, p.x, p.y, p.floor)
    /\ UNCHANGED match_out
    /\ matchIdle

\* The two renderings of one path by the matcher as it stands, with the ids
\* registered at the time.
RenderPath(path, points_per_segment) ==
    /\ match_out' = [op |-> "render", path |-> path,
                     registered |-> DOMAIN node_positions,
                     points_per_segment |-> points_per_segment,
                     smooth_path |-> GenerateSmoothPath(node_positions, path,
                                                        points_per_segment),
                     coordinates |-> PathTo3dCoordinates(node_positions, path)]
    /\ UNCHANGED node_positions
    /\ matchIdle

\* One generate_path_segments call, with the positions registered at the time.
SegmentPath(path) ==
    /\ match_out' = [op |-> "segments", path |-> path,
                     positions |-> node_positions,
                     segments |-> GeneratePathSegments(node_positions, path)]
    /\ UNCHANGED node_positions
    /\ matchIdle

NextMatcher ==
    \/ \E node_id \in MatchIds, p \in MatchPositions : RegisterNode(node_id, p)
    \/ \E path \in MatchPaths, n \in PointsPerSegment : RenderPath(path, n)
    \/ \E path \in MatchPaths : SegmentPath(path)

SpecMatcher == Init /\ [][NextMatcher]_vars

RenderedOnce == match_out.op = "render" /\ match_out.points_per_segment = 1

AllRegistered == \A i \in 1 .. Len(match_out.path) :
                     match_out.path[i] \in match_out.registered

\* C17 as stated: for every path and every set of registered nodes,
\* generate_smooth_path(path, 1) returns the point sequence of
\* path_to_3d_coordinates(path).
C17_SmoothOneIsProjection ==
    RenderedOnce => match_out.smooth_path = match_out.coordinates

\* C17, amended: for every path whose ids are all registered, and every path
\* of fewer than two ids, generate_smooth_path(path, 1) returns the point
\* sequence of path_to_3d_coordinates(path).
C17_SmoothOneIsProjectionOfRegistered ==
    (RenderedOnce /\ (AllRegistered \/ Len(match_out.path) < 2))
        => match_out.smooth_path = match_out.coordinates

\* A path of three registered ids, each step between two different points, was
\* rendered with one point per segment.
C17_Witness ==
    /\ RenderedOnce
    /\ Len(match_out.path) = 3
    /\ AllRegistered
    /\ Len(match_out.coordinates) = 3
    /\ match_out.coordinates[1] # match_out.coordinates[2]
    /\ match_out.coordinates[2] # match_out.coordinates[3]

---------------------------------------------------------------------------
(***************************************************************************)
(* One building, many requests: the graph with nodes A(0,0,floor 0),       *)
(* B(10,0,floor 0), C(10,0,floor 1) and edges A-B = 10, B-C = 5,           *)
(* A-C = 20 is searched while handle_congestion_update stores new readings *)
(* (backend/api/main.py).                                                  *)
(***************************************************************************)
MaxUpdates == 2         \* readings stored while one search is running

ScenarioNodes ==
    ("A" :> [x |-> 0, y |-> 0, floor |-> 0])
    @@ ("B" :> [x |-> 10, y |-> 0, floor |-> 0])
    @@ ("C" :> [x |-> 10, y |-> 0, floor |-> 1])

\* add_edge("A", "B", 10), add_edge("B", "C", 5), add_edge("A", "C", 20) on the
\* three fresh nodes.
ScenarioNeighbors ==
    AddEdgeGraph(
        AddEdgeGraph(
            AddEdgeGraph([n \in DOMAIN ScenarioNodes |-> EmptyFn],
                         ScenarioNodes, "A", "B", 10),
            ScenarioNodes, "B", "C", 5),
        ScenarioNodes, "A", "C", 20)

InitScenario ==
    /\ nodes = ScenarioNodes
    /\ neighbors = ScenarioNeighbors
    /\ special_locations = EmptyFn
    /\ lookup = [kind |-> "None", id |-> "none"]
    /\ calls = 0
    /\ pc = "build"
    /\ start_id = "none"
    /\ end_id = "none"
    /\ congestion_data = EmptyFn
    /\ open_set = {}
    /\ closed_set = {}
    /\ g_score = EmptyFn
    /\ came_from = EmptyFn
    /\ expanded = <<>>
    /\ result = <<>>
    /\ live = EmptyFn
    /\ mid_search = 0
    /\ data_cache = EmptyFn
    /\ congestion_cache = EmptyFn
    /\ now = 0
    /\ est_ret = [op |-> "none"]
    /\ workers = EmptyFn
    /\ node_positions = EmptyFn
    /\ match_out = [op |-> "none"]

\* Variant: the dict handed to find_path is the store itself, so a new reading
\* shows in it.
StoreCreateShared(store, cd, node1_id, node2_id, rate) ==
    [live |-> Put(store, <<node1_id, node2_id>>, rate),
     congestion_data |-> Put(cd, <<node1_id, node2_id>>, rate)]

\* main.py lines 216-231: congestion_ops.create stores a reading for the edge.
\* The dict a running find_path reads is a local of its request
\* (main.py line 125) and is not reachable from here.
StoreCreate(store, cd, node1_id, node2_id, rate) ==
    [live |-> Put(store, <<node1_id, node2_id>>, rate),
     congestion_data |-> cd]

\* handle_congestion_update stores a reading, at any point of a request.
CongestionUpdate(node1_id, node2_id, rate) ==
    /\ pc = "search" => mid_search < MaxUpdates
    /\ LET c == StoreCreate(live, congestion_data, node1_id, node2_id, rate)
       IN  /\ live' = c.live
           /\ congestion_data' = c.congestion_data
    /\ mid_search' = IF pc = "search" THEN mid_search + 1 ELSE mid_search
    /\ UNCHANGED <<nodes, neighbors, special_locations, lookup, calls, pc, start_id,
                   end_id, open_set, closed_set, g_score, came_from, expanded,
                   result>>
    /\ UNCHANGED <<estVars, workers, matchVars>>

\* The next request finds the same building.
ScenarioRequest ==
    /\ pc \in {"done", "error"}
    /\ pc' = "build"
    /\ start_id' = "none"
    /\ end_id' = "none"
    /\ congestion_data' = EmptyFn
    /\ open_set' = {}
    /\ closed_set' = {}
    /\ g_score' = EmptyFn
    /\ came_from' = EmptyFn
    /\ expanded' = <<>>
    /\ result' = <<>>
    /\ mid_search' = 0
    /\ UNCHANGED <<nodes, neighbors, special_locations, lookup, calls, live>>
    /\ UNCHANGED <<estVars, workers, matchVars>>

NextScenario ==
    \/ \E s \in NodeIds, g \in NodeIds, cd \in Snapshots : FindPath(s, g, cd)
    \/ ReturnPath
    \/ Expand
    \/ \E p \in Pairs, r \in Rates : CongestionUpdate(p[1], p[2], r)
    \/ ScenarioRequest

SpecScenario == InitScenario /\ [][NextScenario]_vars

ScenarioGraph == nodes = ScenarioNodes /\ neighbors = ScenarioNeighbors

\* The snapshot gives A-B the rate 1.0, under either key order or both, and
\* holds no other rate.
OnlyABCongested(cd) ==
    /\ DOMAIN cd # {}
    /\ DOMAIN cd \subseteq {<<"A", "B">>, <<"B", "A">>}
    /\ \A k \in DOMAIN cd : cd[k] = 2

\* C20: in the graph A(0,0,floor 0), B(10,0,floor 0), C(10,0,floor 1) with
\* A-B = 10, B-C = 5, A-C = 20 and a snapshot that gives only A-B the rate 1.0,
\* find_path(A, C) returns [A, C] of cost 20, not [A, B, C] of cost 35.
C20_CongestedDetourAvoided ==
    (/\ ScenarioGraph
     /\ pc = "done"
     /\ start_id = "A"
     /\ end_id = "C"
     /\ OnlyABCongested(congestion_data))
    => /\ result = <<"A", "C">>
       /\ PathCost(result, congestion_data) = 20
       /\ PathCost(<<"A", "B", "C">>, congestion_data) = 35

\* The search from A to C has returned under a snapshot that holds the rate
\* only under the key (B, A), the reverse of the order the search looks up
\* first.
C20_Witness ==
    /\ ScenarioGraph
    /\ pc = "done"
    /\ start_id = "A"
    /\ end_id = "C"
    /\ congestion_data = (<<"B", "A">> :> 2)
    /\ expanded = <<"A">>
    /\ result = <<"A", "C">>

---------------------------------------------------------------------------
(***************************************************************************)
(* Concurrent add_data_point calls on the one CongestionProcessor of       *)
(* main.py line 22.  The processor takes no lock, so the threads           *)
(* interleave between the statements of add_data_point and                 *)
(* _clean_expired_data; the steps below are those statements, each taken   *)
(* atomically.  Every request stamps its own user id on its samples        *)
(* (main.py lines 209-210).                                                *)
(***************************************************************************)
MaxThreads == 2         \* concurrent calls

Threads == 1 .. MaxThreads

ThreadUser(t) == IF t = 1 THEN "u1" ELSE "u2"

InitConcurrent ==
    /\ nodes = EmptyFn
    /\ neighbors = EmptyFn
    /\ special_locations = EmptyFn
    /\ lookup = [kind |-> "None", id |-> "none"]
    /\ calls = 0
    /\ pc = "build"
    /\ start_id = "none"
    /\ end_id = "none"
    /\ congestion_data = EmptyFn
    /\ open_set = {}
    /\ closed_set = {}
    /\ g_score = EmptyFn
    /\ came_from = EmptyFn
    /\ expanded = <<>>
    /\ result = <<>>
    /\ live = EmptyFn
    /\ mid_search = 0
    /\ data_cache = EmptyFn
    /\ congestion_cache = EmptyFn
    /\ now = 0
    /\ est_ret = [op |-> "none"]
    /\ workers = [t \in Threads |-> [pc |-> "idle"]]
    /\ node_positions = EmptyFn
    /\ match_out = [op |-> "none"]

concIdle == UNCHANGED <<navVars, live, mid_search, congestion_cache, now, est_ret,
                        matchVars>>

\* A thread enters add_data_point(data).
CallAddDataPoint(t, data) ==
    /\ workers[t].pc = "idle"
    /\ data.user_id = ThreadUser(t)
    /\ workers' = [workers EXCEPT ![t] = [pc |-> "check", data |-> data]]
    /\ UNCHANGED data_cache
    /\ concIdle

\* Line 50: if location_id not in self.data_cache.
CheckTracked(t) ==
    /\ workers[t].pc = "check"
    /\ workers' = [workers EXCEPT ![t].pc =
                      IF workers[t].data.location_id \in DOMAIN data_cache
                      THEN "append" ELSE "create"]
    /\ UNCHANGED data_cache
    /\ concIdle

\* Line 51: self.data_cache[location_id] = [].
CreateRecord(t) ==
    /\ workers[t].pc = "create"
    /\ data_cache' = Put(data_cache, workers[t].data.location_id, <<>>)
    /\ workers' = [workers EXCEPT ![t].pc = "append"]
    /\ concIdle

\* Line 53: self.data_cache[location_id].append(data).
AppendSample(t) ==
    /\ workers[t].pc = "append"
    /\ data_cache' = [data_cache EXCEPT ![workers[t].data.location_id] =
                         Append(@, workers[t].data)]
    /\ workers' = [workers EXCEPT ![t].pc = "clean"]
    /\ concIdle

\* Lines 63-67, right-hand side: the filtered list is built from the record
\* as it is now.
BuildCleaned(t) ==
    /\ workers[t].pc = "clean"
    /\ workers' = [workers EXCEPT ![t] =
                      [pc |-> "store", data |-> workers[t].data,
                       cleaned |-> Unexpired(data_cache[workers[t].data.location_id],
                                             now)]]
    /\ UNCHANGED data_cache
    /\ concIdle

\* Line 64, the assignment: the record is replaced by the filtered list.
StoreCleaned(t) ==
    /\ workers[t].pc = "store"
    /\ data_cache' = [data_cache EXCEPT ![workers[t].data.location_id] =
                         workers[t].cleaned]
    /\ workers' = [workers EXCEPT ![t] = [pc |-> "done", data |-> workers[t].data]]
    /\ concIdle

NextConcurrent ==
    \/ \E t \in Threads, data \in Samples : CallAddDataPoint(t, data)
    \/ \E t \in Threads : CheckTracked(t)
    \/ \E t \in Threads : CreateRecord(t)
    \/ \E t \in Threads : AppendSample(t)
    \/ \E t \in Threads : BuildCleaned(t)
    \/ \E t \in Threads : StoreCleaned(t)

SpecConcurrent == InitConcurrent /\ [][NextConcurrent]_vars

Holds(list, data) == \E i \in 1 .. Len(list) : list[i] = data

\* C19: once all concurrent add_data_point calls have completed, every
\* ingested sample that has not expired is in the record of its location.
C19_NoSampleLost ==
    (\A t \in Threads : workers[t].pc = "done")
    => \A t \in Threads :
          now - workers[t].data.timestamp < expiry_time
             => /\ workers[t].data.location_id \in DOMAIN data_cache
                /\ Holds(data_cache[workers[t].data.location_id], workers[t].data)

---------------------------------------------------------------------------
(* Statements about repeated add_edge calls and about the search *)

\* The edge {a, b} is present with weight w: each end lists the other with w.
ExistingEdge(a, b, w) ==
    /\ HasEdge(a, b) /\ neighbors[a][b] = w
    /\ HasEdge(b, a) /\ neighbors[b][a] = w

\* C21: for every graph and every existing edge {a, b} with weight w, calling
\* add_edge(a, b, w) again, in either argument order, leaves the graph state
\* unchanged; find_path reads nothing but that state, its arguments and the
\* snapshot, so its result is unchanged as well.
C21_ReAddEdgeIdempotent ==
    \A a \in DOMAIN nodes, b \in DOMAIN nodes, w \in Distances :
        ExistingEdge(a, b, w)
        => /\ AddEdgeGraph(neighbors, nodes, a, b, w) = neighbors
           /\ AddEdgeGraph(neighbors, nodes, b, a, w) = neighbors

\* A graph of three nodes with two edges of different weights, where
\* re-adding A-B in the other argument order leaves every neighbour map as it
\* is.
C21_Witness ==
    /\ pc = "build"
    /\ DOMAIN nodes = NodeIds
    /\ ExistingEdge("A", "B", 1)
    /\ ExistingEdge("B", "C", -1)
    /\ AddEdgeGraph(neighbors, nodes, "B", "A", 1) = neighbors

---------------------------------------------------------------------------
(* Statements about generate_path_segments *)

\* The indices i of the consecutive pairs (path[i], path[i+1]) of the last
\* segmented path whose two ids were both registered.
RegisteredPairs ==
    {i \in 1 .. Len(match_out.path) - 1 :
        /\ match_out.path[i] \in DOMAIN match_out.positions
        /\ match_out.path[i + 1] \in DOMAIN match_out.positions}

\* C22: generate_path_segments returns, in path order, exactly one segment for
\* each consecutive pair of path ids whose two ids are both registered (pairs
\* with an unregistered id produce nothing), and a segment's is_floor_change
\* is true if and only if the model y coordinates of its two endpoints differ
\* by more than 0.1.
C22_SegmentsOfRegisteredPairs ==
    match_out.op = "segments"
    => /\ Len(match_out.segments) = Cardinality(RegisteredPairs)
       /\ \A i \in RegisteredPairs :
            LET seg == match_out.segments[Cardinality({j \in RegisteredPairs : j <= i})]
                p == match_out.positions[match_out.path[i]]
                q == match_out.positions[match_out.path[i + 1]]
            IN  /\ seg.start_node_id = match_out.path[i]
                /\ seg.end_node_id = match_out.path[i + 1]
                /\ seg.start = ToDict(p)
                /\ seg.end = ToDict(q)
                /\ seg.is_floor_change <=> (10 * Abs(p.y - q.y) > 1)

\* A path of three ids was segmented whose first id is not registered: the
\* first pair gave nothing, the second pair gave the only segment, between
\* two levels.
C22_Witness ==
    /\ match_out.op = "segments"
    /\ Len(match_out.path) = 3
    /\ match_out.path[1] \notin DOMAIN match_out.positions
    /\ Len(match_out.segments) = 1
    /\ match_out.segments[1].start_node_id = match_out.path[2]
    /\ match_out.segments[1].is_floor_change

---------------------------------------------------------------------------
(***************************************************************************)
(* Searches on graphs of four nodes.  The nodes A, C, B lie on one line of *)
(* floor 0 and D lies above B on floor 1; every graph is what add_node for *)
(* the four nodes followed by add_edge calls leaves.  An edge is absent or *)
(* carries one of its weights: the heuristic distance of its endpoints    *)
(* rounded up (2, 1, 1, 5, 6), zero, or -1.                                *)
(***************************************************************************)
SearchIds == {"A", "B", "C", "D"}

SearchNodes ==
    "A" :> [x |-> 0, y |-> 0, floor |-> 0] @@ "B" :> [x |-> 2, y |-> 0, floor |-> 0]
    @@ "C" :> [x |-> 1, y |-> 0, floor |-> 0] @@ "D" :> [x |-> 2, y |-> 0, floor |-> 1]

SearchEdges ==
    <<[a |-> "A", b |-> "B", weights |-> {0, 2}],
      [a |-> "A", b |-> "C", weights |-> {-1, 0, 1}],
      [a |-> "C", b |-> "B", weights |-> {0, 1}],
      [a |-> "B", b |-> "D", weights |-> {5}],
      [a |-> "C", b |-> "D", weights |-> {6}],
      [a |-> "A", b |-> "A", weights |-> {0}]>>

\* One choice per candidate edge: {w} for a weight w, or {} for an absent edge.
EdgeChoices ==
    {c \in [1 .. Len(SearchEdges) ->
               {{}} \cup {{w} : w \in UNION {SearchEdges[i].weights :
                                               i \in 1 .. Len(SearchEdges)}}] :
        \A i \in 1 .. Len(SearchEdges) : c[i] \subseteq SearchEdges[i].weights}

\* The add_edge calls of a choice, in the order of SearchEdges from i on.
RECURSIVE AddEdges(_, _, _)
AddEdges(nbs, c, i) ==
    IF i > Len(SearchEdges) THEN nbs
    ELSE AddEdges(IF c[i] = {} THEN nbs
                  ELSE AddEdgeGraph(nbs, SearchNodes, SearchEdges[i].a,
                                    SearchEdges[i].b, CHOOSE w \in c[i] : TRUE),
                  c, i + 1)

SearchSnapshots ==
    {EmptyFn,
     <<"A", "B">> :> 2,
     <<"B", "A">> :> 1,
     <<"A", "B">> :> 1 @@ <<"B", "A">> :> 2,
     <<"C", "D">> :> 2}

InitSearch ==
    /\ nodes = SearchNodes
    /\ \E c \in EdgeChoices :
          neighbors = AddEdges([n \in SearchIds |-> EmptyFn], c, 1)
    /\ special_locations = EmptyFn
    /\ lookup = [kind |-> "None", id |-> "none"]
    /\ calls = 0
    /\ pc = "build"
    /\ start_id = "none"
    /\ end_id = "none"
    /\ congestion_data = EmptyFn
    /\ open_set = {}
    /\ closed_set = {}
    /\ g_score = EmptyFn
    /\ came_from = EmptyFn
    /\ expanded = <<>>
    /\ result = <<>>
    /\ live = EmptyFn
    /\ mid_search = 0
    /\ data_cache = EmptyFn
    /\ congestion_cache = EmptyFn
    /\ now = 0
    /\ est_ret = [op |-> "none"]
    /\ workers = EmptyFn
    /\ node_positions = EmptyFn
    /\ match_out = [op |-> "none"]

NextSearch ==
    \/ \E s \in SearchIds, g \in SearchIds, cd \in SearchSnapshots : FindPath(s, g, cd)
    \/ ReturnPath
    \/ Expand
    \/ ReturnEmpty

SpecSearch == InitSearch /\ [][NextSearch]_vars

\* C23: within one find_path search no node is expanded more than once: an
\* entry popped from the frontier whose node is already in the closed set is
\* skipped, so no id occurs twice in the sequence of nodes whose neighbour
\* loop was run.
C23_NoNodeExpandedTwice ==
    \A i, j \in 1 .. Len(expanded) : i # j => expanded[i] # expanded[j]

---------------------------------------------------------------------------
(* Statements about step detection and the rates of a batch *)

\* The steps of a user's time-sorted samples as the statement of C24 counts
\* them, from index i on: a sample above the threshold whose predecessor was
\* not above it, at least one cooldown period after the step counted before
\* (last_step_time is << >> while no step has been counted).
RECURSIVE TransitionSteps(_, _, _)
TransitionSteps(user_data, i, last_step_time) ==
    IF i > Len(user_data)
    THEN 0
    ELSE IF /\ Magnitude(user_data[i]) > step_threshold
            /\ (i = 1 \/ ~(Magnitude(user_data[i - 1]) > step_threshold))
            /\ \A t \in {last_step_time[k] : k \in 1 .. Len(last_step_time)} :
                   user_data[i].timestamp - t >= step_cooldown
         THEN 1 + TransitionSteps(user_data, i + 1, <<user_data[i].timestamp>>)
         ELSE TransitionSteps(user_data, i + 1, last_step_time)

\* C24: in a user's time-sorted samples at a location, a sample is counted as
\* a step exactly when its magnitude is above the step threshold, the user's
\* preceding sample was not above the threshold, and its timestamp is at least
\* one cooldown period after the previously counted step; so the count of the
\* code is the count of such samples.
C24_StepIsTransitionAfterCooldown ==
    \A loc \in DOMAIN data_cache : \A u \in UsersOf(data_cache[loc]) :
        CountSteps(UserData(data_cache[loc], u), 1, 0)
            = TransitionSteps(UserData(data_cache[loc], u), 1, <<>>)

\* find_path runs in one thread from its call to its return: a loop step that
\* can be taken is taken.
SpecSearchFair ==
    /\ InitSearch
    /\ [][NextSearch]_vars
    /\ WF_vars(Expand)
    /\ WF_vars(ReturnPath)
    /\ WF_vars(ReturnEmpty)

\* C25: find_path terminates for every finite graph (with cycles, self-loops
\* and zero-weight edges) and every snapshot: the frontier eventually empties
\* or the goal is popped, and the call returns either a path from the start to
\* the goal or the empty path.
C25_FindPathTerminates ==
    (pc = "search")
        ~> (/\ pc = "done"
            /\ \/ result = <<>>
               \/ (result[1] = start_id /\ result[Len(result)] = end_id))

\* A search has returned on a graph that holds the cycle A-C-B of zero-weight
\* edges and the self-loop of A, after expanding at least three nodes.
C25_Witness ==
    /\ pc = "done"
    /\ HasEdge("A", "A")
    /\ ExistingEdge("A", "C", 0) /\ ExistingEdge("C", "B", 0) /\ ExistingEdge("A", "B", 0)
    /\ Len(expanded) >= 3

\* C26: every non-empty path returned by find_path is well formed: its first
\* element is the start id, its last element is the goal id, every
\* consecutive pair of ids is joined by an edge of the graph, and no node id
\* occurs twice; at every point of a search the predecessor links lead from
\* any node to a node without predecessor in fewer steps than there are nodes.
C26_ReturnedPathWellFormed ==
    /\ (pc = "done" /\ result # <<>>)
       => /\ result[1] = start_id
          /\ result[Len(result)] = end_id
          /\ \A i \in 1 .. Len(result) - 1 : HasEdge(result[i], result[i + 1])
          /\ \A i, j \in 1 .. Len(result) : i # j => result[i] # result[j]
    /\ \A n \in DOMAIN came_from :
          LET w == Walk(came_from, n, Cardinality(DOMAIN nodes))
          IN  /\ Len(w) <= Cardinality(DOMAIN nodes)
              /\ w[Len(w)] \notin DOMAIN came_from

\* A path through all four nodes was returned under a snapshot with a rate,
\* on a graph with the zero-weight self-loop of the start.
C26_Witness ==
    /\ pc = "done"
    /\ Len(result) = 4
    /\ congestion_data # EmptyFn
    /\ HasEdge(start_id, start_id)

\* The rate of a list of samples computed afresh at current_time.
RecomputedRate(list, current_time) ==
    IF Unexpired(list, current_time) = <<>>
    THEN FZero
    ELSE CongestionRate(Unexpired(list, current_time))

\* C27: the rate that process_accelerometer_batch returns for a location
\* touched by the batch equals the rate computed from that location's
\* unexpired samples as they stand after the batch was ingested, for every
\* prior sequence of ingest and estimate calls.
C27_BatchRatesReflectIngestedSamples ==
    [][\A data_batch \in Batches :
          (ProcessAccelerometerBatch(data_batch) /\ ~est_ret'.error)
          => \A l \in est_ret'.batch_locations \cap DOMAIN est_ret'.rates :
                est_ret'.rates[l] = RecomputedRate(data_cache'[l], now)]_vars

---------------------------------------------------------------------------
(* The location keys of edges whose node ids may hold the separator *)

EdgeKeyIds == {"a", "a_b", "b", "b_b"}

\* Samples of one user on the edge between the nodes a and b_b.
EdgeKeySamples ==
    [x : {10}, timestamp : SampleTimes, user_id : {"u1"}, location_id : {"path_a_b_b"}]

NextEdgeKeys ==
    \/ \E t \in ClockInstants : Tick(t)
    \/ \E data \in EdgeKeySamples : AddDataPoint(data)
    \/ \E a \in EdgeKeyIds, b \in EdgeKeyIds : GetCongestionBetweenNodes(a, b)

SpecEdgeKeys == Init /\ [][NextEdgeKeys]_vars

\* C28: the edge-to-location key used by get_congestion_between_nodes is
\* injective on unordered pairs: two calls for different unordered pairs of
\* node ids never use the same location key (and so never read each other's
\* samples), for all node ids, including ids that contain the separator.
C28_EdgeKeyInjective ==
    (est_ret.op = "get_congestion_between_nodes" /\ est_ret.before # <<>>)
    => LET prev == est_ret.before[1]
       IN  {prev.node1_id, prev.node2_id} # {est_ret.node1_id, est_ret.node2_id}
           => prev.location_id # est_ret.location_id

---------------------------------------------------------------------------
(* Statements about users without a time span *)

\* No user of the list has two samples of different timestamps.
NoPositiveSpan(location_data) ==
    \A i, j \in 1 .. Len(location_data) :
        location_data[i].user_id = location_data[j].user_id
        => location_data[i].timestamp = location_data[j].timestamp

\* C29: in a recomputation over the non-empty unexpired samples of a
\* location, a user whose samples all carry the same timestamp contributes no
\* steps-per-minute value; when no user has a positive time span the average
\* speed is 0, the speed factor is 1 and the recomputed rate is at least 0.5.
C29_NoSpanGivesSpeedFactorOne ==
    [][\A l \in Locations :
          (/\ CalculateCongestion(l)
           /\ ~MemoFresh(congestion_cache, l, now)
           /\ l \in DOMAIN data_cache'
           /\ data_cache'[l] # <<>>)
          => LET location_data == data_cache'[l]
             IN  /\ \A u \in UsersOf(location_data) :
                       NoPositiveSpan(UserData(location_data, u))
                       => u \notin DOMAIN UserSpeeds(location_data)
                 /\ NoPositiveSpan(location_data)
                    => /\ AvgSpeed(location_data) = FZero
                       /\ SpeedFactor(AvgSpeed(location_data)) = FOne
                       /\ FLeq(Frac(1, 2), est_ret'.rate)]_vars

\* A rate has just been recomputed and memoized for a location that holds two
\* samples above the step threshold, of one user and one timestamp; it is at
\* least 0.5.
C29_Witness ==
    /\ est_ret.op = "calculate_congestion"
    /\ est_ret.location_id \in DOMAIN congestion_cache
    /\ congestion_cache[est_ret.location_id].timestamp = now
    /\ est_ret.time = now
    /\ est_ret.rate = congestion_cache[est_ret.location_id].rate
    /\ Len(data_cache[est_ret.location_id]) = 2
    /\ NoPositiveSpan(data_cache[est_ret.location_id])
    /\ UsersOf(data_cache[est_ret.location_id]) = {"u1"}
    /\ \A i \in 1 .. 2 : Magnitude(data_cache[est_ret.location_id][i]) > step_threshold
    /\ Unexpired(data_cache[est_ret.location_id], now) = data_cache[est_ret.location_id]
    /\ FLeq(Frac(1, 2), est_ret.rate)

---------------------------------------------------------------------------
(* Statements about searches under a consistent heuristic *)

\* Every neighbour distance is non-negative and at least the heuristic
\* distance of its two nodes.
ConsistentHeuristic ==
    \A a \in DOMAIN neighbors : \A b \in DOMAIN neighbors[a] :
        /\ neighbors[a][b] >= 0
        /\ b \in DOMAIN nodes
        /\ Square(neighbors[a][b]) >= HeuristicSq(nodes, a, b)

\* C30: when every edge's base distance is non-negative and at least the 3D
\* heuristic distance between its endpoints (5 units per floor) and all rates
\* are in [0,1], find_path returns a minimum-cost start-to-goal path whenever
\* start and goal are connected.
C30_OptimalUnderConsistentHeuristic ==
    (pc = "done" /\ BothPresent /\ ConsistentHeuristic
       /\ Paths(start_id, end_id) # {})
    => /\ result \in Paths(start_id, end_id)
       /\ PathCost(result, congestion_data) = MinCost(start_id, end_id, congestion_data)

\* On the graph with all five edges at their heuristic weights, a search from
\* A to D under a rate on A-B returned a path that costs less than A-B-D.
C30_Witness ==
    /\ pc = "done"
    /\ ConsistentHeuristic
    /\ start_id = "A" /\ end_id = "D"
    /\ ExistingEdge("A", "B", 2) /\ ExistingEdge("A", "C", 1)
    /\ ExistingEdge("C", "B", 1) /\ ExistingEdge("B", "D", 5)
    /\ ExistingEdge("C", "D", 6)
    /\ congestion_data # EmptyFn
    /\ result \in Paths("A", "D")
    /\ PathCost(result, congestion_data) < PathCost(<<"A", "B", "D">>, congestion_data)
====
